---- MODULE Spec2Model ----
(***************************************************************************)
(* Model of fault_data_generator.py (geological stress analysis): the      *)
(* StressTensor class, the fault-normal sampler, the conversion to         *)
(* geological notation, the rake / sense-of-movement classifier, the       *)
(* fault-plane vector validation and the per-fault loop of main().         *)
(*                                                                         *)
(* Numbers.  A Python float is modelled by an exact real of the form       *)
(* (n/d) * sqrt(r), written <<n, d, r>> with d > 0, gcd(n, d) = 1 and r a  *)
(* square-free positive integer (r = 1 for a rational).  The form is       *)
(* canonical, so equality of tuples is equality of numbers.  Sums of two   *)
(* non-zero numbers with different r are outside the modelled domain and   *)
(* make the evaluation fail rather than produce a value.  Floating-point   *)
(* rounding and signed zeros are not modelled.                             *)
(*                                                                         *)
(* Angles.  An angle in degrees is an integer number of micro-degrees; an  *)
(* angle in radians is the record [rad |-> k], k counting units of         *)
(* pi/180 * 10^-6.  sin and cos are exact on the angles of TrigTable (the  *)
(* multiples of 90 degrees and the angles of the 3-4-5 triangle); acos and *)
(* atan2 are exact on values that are the cosine / direction of a table    *)
(* angle and are rounded down to the nearest table angle elsewhere.        *)
(***************************************************************************)
EXTENDS Integers, Sequences, FiniteSets, TLC

VARIABLES
    pc,                 \* control point of the running entry point
    params,             \* the six StressTensor constructor arguments
    stress_tensor,      \* the StressTensor object (None before construction)
    fault_normals,      \* main: list returned by the sampler
    fault_data,         \* main: list of per-fault rows
    validation_results, \* main: list of is_valid flags
    report,             \* main: the validation report printed after the loop
    call                \* last direct call of a module function: args and result

vars == <<pc, params, stress_tensor, fault_normals, fault_data,
          validation_results, report, call>>

None == [none |-> TRUE]

\* a local variable: v is evaluated once and named by the parameter of F
Bind(v, F(_)) == F(v)

----------------------------------------------------------------------------
(* Exact real arithmetic                                                   *)

AbsInt(x) == IF x < 0 THEN -x ELSE x

RECURSIVE GCD(_, _)
GCD(a, b) == IF b = 0 THEN a ELSE GCD(b, a % b)

\* canonical (n/d)*sqrt(r); r is square-free on entry
Rl(n, d, r) ==
    IF n = 0 THEN <<0, 1, 1>>
    ELSE LET g == GCD(AbsInt(n), AbsInt(d))
             s == IF d < 0 THEN -1 ELSE 1
         IN  <<s * (n \div g), s * (d \div g), r>>

Q(n, d) == Rl(n, d, 1)
Zero == <<0, 1, 1>>
One == <<1, 1, 1>>
Ten == <<10, 1, 1>>

Undefined == CHOOSE x \in {} : TRUE

RlSign(a) == IF a[1] > 0 THEN 1 ELSE IF a[1] < 0 THEN -1 ELSE 0
RlNeg(a) == <<-a[1], a[2], a[3]>>
RlAbs(a) == <<AbsInt(a[1]), a[2], a[3]>>

RlMul(a, b) ==
    IF a[1] = 0 \/ b[1] = 0 THEN Zero
    ELSE LET g  == GCD(a[3], b[3])
             g1 == GCD(AbsInt(a[1]), b[2])
             g2 == GCD(AbsInt(b[1]), a[2])
             d0 == (a[2] \div g2) * (b[2] \div g1)
             g3 == GCD(g, d0)
         IN  Rl((a[1] \div g1) * (b[1] \div g2) * (g \div g3), d0 \div g3,
                (a[3] \div g) * (b[3] \div g))

\* 1 / ((n/d) sqrt r) = (d / (n r)) sqrt r
RlInv(a) ==
    IF a[1] = 0 THEN Undefined
    ELSE LET g == GCD(a[2], a[3])
         IN  Rl(RlSign(a) * (a[2] \div g), AbsInt(a[1]) * (a[3] \div g), a[3])

RlDiv(a, b) == RlMul(a, RlInv(b))

RlAdd(a, b) ==
    IF a[1] = 0 THEN b
    ELSE IF b[1] = 0 THEN a
    ELSE IF a[3] # b[3] THEN Undefined
    ELSE LET g == GCD(a[2], b[2])
         IN  Rl(a[1] * (b[2] \div g) + b[1] * (a[2] \div g),
                (a[2] \div g) * b[2], a[3])

RlSub(a, b) == RlAdd(a, RlNeg(b))

\* the trial divisor after k: 2, 3, then the numbers 6m-1 and 6m+1
NextDivisor(k) ==
    IF k = 2 THEN 3 ELSE IF k = 3 THEN 5 ELSE IF k % 6 = 5 THEN k + 2 ELSE k + 4

\* largest s with s*s dividing n (n >= 1): trial division from k upward,
\* removing each prime factor from n as it is found
RECURSIVE SquarePart(_, _)
SquarePart(n, k) ==
    IF k * k > n THEN 1
    ELSE IF n % (k * k) = 0 THEN k * SquarePart(n \div (k * k), k)
    ELSE IF n % k = 0 THEN SquarePart(n \div k, NextDivisor(k))
    ELSE SquarePart(n, NextDivisor(k))

\* math.sqrt of a non-negative rational
RlSqrt(a) ==
    IF a[1] = 0 THEN Zero
    ELSE IF a[1] < 0 \/ a[3] # 1 THEN Undefined
    ELSE LET sn == SquarePart(a[1], 2)
             sd == SquarePart(a[2], 2)
             b  == a[1] \div (sn * sn)
             e  == a[2] \div (sd * sd)
         IN  Rl(sn, sd * e, b * e)

\* a positive real (n/d) sqrt r is below 1 iff n*n*r < d*d
BelowOne(q) ==
    IF q[3] = 1 THEN q[1] < q[2] ELSE q[1] * q[1] * q[3] < q[2] * q[2]
AboveOne(q) ==
    IF q[3] = 1 THEN q[1] > q[2] ELSE q[1] * q[1] * q[3] > q[2] * q[2]

\* a < b: by sign, else by comparing the quotient a/b with 1
RlLt(a, b) ==
    IF RlSign(a) # RlSign(b) THEN RlSign(a) < RlSign(b)
    ELSE IF RlSign(a) = 0 THEN FALSE
    ELSE IF RlSign(a) > 0 THEN BelowOne(RlDiv(a, b))
    ELSE AboveOne(RlDiv(a, b))

RlGt(a, b) == RlLt(b, a)
RlLe(a, b) == ~RlLt(b, a)
RlGe(a, b) == ~RlLt(a, b)

\* a > 10^-k and a >= 10^-k, without forming 10^k
RECURSIVE GtPow10(_, _)
GtPow10(a, k) ==
    IF RlGt(a, One) THEN TRUE
    ELSE IF k = 0 THEN FALSE
    ELSE GtPow10(RlMul(a, Ten), k - 1)

RECURSIVE GePow10(_, _)
GePow10(a, k) ==
    IF RlGe(a, One) THEN TRUE
    ELSE IF k = 0 THEN FALSE
    ELSE GePow10(RlMul(a, Ten), k - 1)

----------------------------------------------------------------------------
(* numpy vectors and matrices: tuples of reals                             *)

Vec(x, y, z) == <<x, y, z>>
VNeg(v) == <<RlNeg(v[1]), RlNeg(v[2]), RlNeg(v[3])>>
VScale(s, v) == <<RlMul(s, v[1]), RlMul(s, v[2]), RlMul(s, v[3])>>
VDivS(v, s) == <<RlDiv(v[1], s), RlDiv(v[2], s), RlDiv(v[3], s)>>
VSub(u, v) == <<RlSub(u[1], v[1]), RlSub(u[2], v[2]), RlSub(u[3], v[3])>>
Dot(u, v) ==
    RlAdd(RlAdd(RlMul(u[1], v[1]), RlMul(u[2], v[2])), RlMul(u[3], v[3]))
Cross(u, v) ==
    <<RlSub(RlMul(u[2], v[3]), RlMul(u[3], v[2])),
      RlSub(RlMul(u[3], v[1]), RlMul(u[1], v[3])),
      RlSub(RlMul(u[1], v[2]), RlMul(u[2], v[1]))>>
\* np.linalg.norm: sqrt of the sum of squares, computed as (g/D) sqrt(r)
\* sqrt(w.w) where v = (g/D) sqrt(r) w with w a primitive integer vector;
\* components with different radicands have rational squares, summed directly
Norm(v) ==
    IF v[1][1] = 0 /\ v[2][1] = 0 /\ v[3][1] = 0 THEN Zero
    ELSE LET r == IF v[1][1] # 0 THEN v[1][3]
                  ELSE IF v[2][1] # 0 THEN v[2][3] ELSE v[3][3]
             l12 == (v[1][2] \div GCD(v[1][2], v[2][2])) * v[2][2]
             D == (l12 \div GCD(l12, v[3][2])) * v[3][2]
             m == [i \in 1..3 |-> v[i][1] * (D \div v[i][2])]
             g == GCD(GCD(AbsInt(m[1]), AbsInt(m[2])), AbsInt(m[3]))
             w == [i \in 1..3 |-> m[i] \div g]
         IN  IF \E i \in 1..3 : v[i][1] # 0 /\ v[i][3] # r
             THEN RlSqrt(Dot(v, v))
             ELSE RlMul(Rl(g, D, r),
                        RlSqrt(Q(w[1] * w[1] + w[2] * w[2] + w[3] * w[3], 1)))
MatVec(m, v) == <<Dot(m[1], v), Dot(m[2], v), Dot(m[3], v)>>

----------------------------------------------------------------------------
(* Angles and the math module                                              *)

\* micro-degrees -> <<5 sin, 5 cos>>: the angles whose sine and cosine are
\* both rational with denominator 5
TrigTable ==
    (0 :> <<0, 5>>) @@ (36869898 :> <<3, 4>>) @@ (53130102 :> <<4, 3>>) @@
    (90000000 :> <<5, 0>>) @@ (126869898 :> <<4, -3>>) @@
    (143130102 :> <<3, -4>>) @@ (180000000 :> <<0, -5>>) @@
    (216869898 :> <<-3, -4>>) @@ (233130102 :> <<-4, -3>>) @@
    (270000000 :> <<-5, 0>>) @@ (306869898 :> <<-4, 3>>) @@
    (323130102 :> <<-3, 4>>)

TableAngles == DOMAIN TrigTable

FullTurn == 360 * 1000000
Deg(k) == k * 1000000

\* math.radians, math.degrees, math.pi
Radians(deg) == [rad |-> deg]
Degrees(x) == x.rad
Pi == [rad |-> Deg(180)]

\* micro-degrees -> <<sin, cos>> of the four diagonal bearings, +-1/sqrt 2
DiagonalTable ==
    (45000000 :> <<<<1, 2, 2>>, <<1, 2, 2>>>>) @@
    (135000000 :> <<<<1, 2, 2>>, <<-1, 2, 2>>>>) @@
    (225000000 :> <<<<-1, 2, 2>>, <<-1, 2, 2>>>>) @@
    (315000000 :> <<<<-1, 2, 2>>, <<1, 2, 2>>>>)

DiagonalAngles == DOMAIN DiagonalTable

\* the angles whose sine and cosine are known exactly
KnownAngles == TableAngles \cup DiagonalAngles

\* math.sin, math.cos (periodic; defined on the known angles)
MathSin(x) ==
    IF x.rad % FullTurn \in DiagonalAngles
    THEN DiagonalTable[x.rad % FullTurn][1]
    ELSE Q(TrigTable[x.rad % FullTurn][1], 5)
MathCos(x) ==
    IF x.rad % FullTurn \in DiagonalAngles
    THEN DiagonalTable[x.rad % FullTurn][2]
    ELSE Q(TrigTable[x.rad % FullTurn][2], 5)

\* math.acos: angles of [0, 180] degrees with a known cosine, in micro-degrees
AcosTable ==
    (0 :> One) @@ (30000000 :> <<1, 2, 3>>) @@ (36869898 :> Q(4, 5)) @@
    (45000000 :> <<1, 2, 2>>) @@ (53130102 :> Q(3, 5)) @@
    (60000000 :> Q(1, 2)) @@ (90000000 :> Zero) @@
    (120000000 :> Q(-1, 2)) @@ (126869898 :> Q(-3, 5)) @@
    (135000000 :> <<-1, 2, 2>>) @@ (143130102 :> Q(-4, 5)) @@
    (150000000 :> <<-1, 2, 3>>) @@ (180000000 :> Q(-1, 1))

\* math.acos raises ValueError outside [-1, 1]
AcosRaises(x) == RlGt(RlAbs(x), One)

\* math.acos on [-1, 1]: the largest table angle t with cos t >= x
MathAcos(x) ==
    LET cands == {t \in DOMAIN AcosTable : RlGe(AcosTable[t], x)}
    IN  [rad |-> CHOOSE t \in cands : \A u \in cands : u <= t]

\* the known angle that follows t going round the circle
NextTableAngle(t) ==
    LET above == {u \in KnownAngles : u > t}
    IN  IF above = {} THEN 0
        ELSE CHOOSE u \in above : \A w \in above : u <= w

\* math.atan2(y, x), in (-pi, pi]: the known angle t at or next below the
\* direction of (x, y); atan2(0, 0) = 0
MathAtan2(y, x) ==
    IF y[1] = 0 /\ x[1] = 0 THEN [rad |-> 0]
    ELSE LET c(t) == MathCos([rad |-> t])
             s(t) == MathSin([rad |-> t])
             \* t is at most half a turn below the direction of (x, y)
             cands == {t \in KnownAngles :
                          RlGe(RlMul(c(t), y), RlMul(s(t), x))}
             best == CHOOSE t \in cands : NextTableAngle(t) \notin cands
         IN  [rad |-> IF best > Deg(180) THEN best - FullTurn ELSE best]

----------------------------------------------------------------------------
(* class StressTensor                                                      *)

\* tolerance 1e-10 of the code, as the exponent k of 10^-k
AbsLtTiny(x) == ~GePow10(RlAbs(x), 10)

\* unit vector of an axis from azimuth and dip, as the code builds it
AxisVector(azimuth, dip) ==
    LET phi == Radians(azimuth)
        d   == Radians(dip)
    IN  Vec(RlMul(MathSin(d), MathSin(phi)),
            RlMul(MathSin(d), MathCos(phi)),
            RlNeg(MathCos(d)))

Vertical == Vec(Zero, Zero, Q(-1, 1))

\* mutant: the cross product is not normalised
Sigma2VectorNotNormalised(sigma1_vector, sigma3_vector, is_andersonian) ==
    IF is_andersonian THEN Vertical
    ELSE Bind(Cross(sigma3_vector, sigma1_vector), LAMBDA c :
         Bind(Norm(c), LAMBDA norm :
         IF GtPow10(norm, 10) THEN c ELSE Vertical))

\* mutant: sigma2 is set to the vertical on every branch
Sigma2VectorAlwaysVertical(sigma1_vector, sigma3_vector, is_andersonian) ==
    Vertical

\* mutant: the Andersonian flag is not consulted
Sigma2VectorIgnoringFlag(sigma1_vector, sigma3_vector, is_andersonian) ==
    Bind(Cross(sigma3_vector, sigma1_vector), LAMBDA c :
    Bind(Norm(c), LAMBDA norm :
    IF GtPow10(norm, 10) THEN VDivS(c, norm) ELSE Vertical))

\* mutant: the fallback for parallel axes points up instead of down
Sigma2VectorFallbackUp(sigma1_vector, sigma3_vector, is_andersonian) ==
    IF is_andersonian THEN Vertical
    ELSE Bind(Cross(sigma3_vector, sigma1_vector), LAMBDA c :
         Bind(Norm(c), LAMBDA norm :
         IF GtPow10(norm, 10) THEN VDivS(c, norm) ELSE VNeg(Vertical)))

\* sigma2 of _calculate_principal_directions
Sigma2Vector(sigma1_vector, sigma3_vector, is_andersonian) ==
    IF is_andersonian THEN Vertical
    ELSE Bind(Cross(sigma3_vector, sigma1_vector), LAMBDA c :
         Bind(Norm(c), LAMBDA norm :
         IF GtPow10(norm, 10) THEN VDivS(c, norm) ELSE Vertical))

\* the warnings _calculate_principal_directions prints
PrincipalWarnings(s1, s2, s3, is_andersonian) ==
    (IF is_andersonian THEN {"andersonian"} ELSE {})
    \cup (IF ~is_andersonian /\ ~GtPow10(Norm(Cross(s3, s1)), 10)
          THEN {"parallel"} ELSE {})
    \cup (IF \E pair \in {<<s1, s2>>, <<s1, s3>>, <<s2, s3>>} :
                 GtPow10(RlAbs(Dot(pair[1], pair[2])), 6)
          THEN {"not_orthogonal"} ELSE {})

\* azimuth and dip of sigma2 in _calculate_spherical_coords
Sigma2Spherical(sigma2_vector, is_andersonian) ==
    IF is_andersonian THEN [azimuth |-> 0, dip |-> Deg(90)]
    ELSE IF AbsLtTiny(sigma2_vector[1]) /\ AbsLtTiny(sigma2_vector[2])
    THEN [azimuth |-> 0, dip |-> Deg(90)]
    ELSE Bind(Degrees(MathAtan2(sigma2_vector[1], sigma2_vector[2])),
              LAMBDA a0 :
         Bind(IF a0 < 0 THEN a0 + Deg(360) ELSE a0, LAMBDA a1 :
         Bind(RlGt(sigma2_vector[3], Zero), LAMBDA up :
         Bind(IF up THEN VNeg(sigma2_vector) ELSE sigma2_vector,
              LAMBDA vector :
         Bind(RlSqrt(RlAdd(RlMul(vector[1], vector[1]),
                           RlMul(vector[2], vector[2]))),
              LAMBDA horizontal_magnitude :
         [azimuth |-> IF up THEN (a1 + Deg(180)) % Deg(360) ELSE a1,
          dip |-> IF GtPow10(horizontal_magnitude, 10)
                  THEN Degrees(MathAtan2(RlAbs(vector[3]),
                                         horizontal_magnitude))
                  ELSE Deg(90)])))))

calculate_spherical_coords(self) ==
    Bind(Sigma2Spherical(self.sigma2_vector, self.is_andersonian), LAMBDA s2 :
    [sigma1 |-> [vector |-> self.sigma1_vector,
                 azimuth |-> self.sigma1_azimuth, dip |-> self.sigma1_dip],
     sigma3 |-> [vector |-> self.sigma3_vector,
                 azimuth |-> self.sigma3_azimuth, dip |-> self.sigma3_dip],
     sigma2 |-> [vector |-> self.sigma2_vector,
                 azimuth |-> s2.azimuth, dip |-> s2.dip]])

\* self after _calculate_principal_directions
calculate_principal_directions(self) ==
    Bind(AxisVector(self.sigma1_azimuth, self.sigma1_dip), LAMBDA s1 :
    Bind(AxisVector(self.sigma3_azimuth, self.sigma3_dip), LAMBDA s3 :
    Bind(Sigma2Vector(s1, s3, self.is_andersonian), LAMBDA s2 :
    Bind([self EXCEPT !.sigma1_vector = s1, !.sigma2_vector = s2,
                      !.sigma3_vector = s3,
                      !.warnings = PrincipalWarnings(s1, s2, s3,
                                                     self.is_andersonian)],
         LAMBDA withv :
    [withv EXCEPT !.principal_axes = calculate_spherical_coords(withv)]))))

\* numpy: np.diag, np.column_stack, .T and @ on 3x3 matrices (tuples of rows)
Diag(a, b, c) == <<Vec(a, Zero, Zero), Vec(Zero, b, Zero), Vec(Zero, Zero, c)>>
ColumnStack(u, v, w) ==
    <<Vec(u[1], v[1], w[1]), Vec(u[2], v[2], w[2]), Vec(u[3], v[3], w[3])>>
Transpose(m) == ColumnStack(m[1], m[2], m[3])
MatMul(a, b) ==
    LET bt == Transpose(b)
    IN  [i \in 1..3 |-> [j \in 1..3 |-> Dot(a[i], bt[j])]]

\* self after _calculate_stress_tensor
calculate_stress_tensor(self) ==
    Bind(Diag(Q(-1, 1), RlNeg(self.R), Zero), LAMBDA S_principal :
    Bind(ColumnStack(self.sigma1_vector, self.sigma2_vector,
                     self.sigma3_vector), LAMBDA R_matrix :
    [self EXCEPT !.stress_tensor =
        MatMul(MatMul(R_matrix, S_principal), Transpose(R_matrix))]))

\* StressTensor.__init__
StressTensor(sigma1_azimuth, sigma1_dip, sigma3_azimuth, sigma3_dip, is_andersonian, R) ==
    calculate_stress_tensor(calculate_principal_directions(
        [sigma1_azimuth |-> sigma1_azimuth, sigma1_dip |-> sigma1_dip,
         sigma3_azimuth |-> sigma3_azimuth, sigma3_dip |-> sigma3_dip,
         is_andersonian |-> is_andersonian, R |-> R,
         sigma1_vector |-> None, sigma2_vector |-> None,
         sigma3_vector |-> None, warnings |-> {},
         principal_axes |-> None, stress_tensor |-> None]))

\* mutant: the normal is subtracted without the normal stress as its factor
get_stress_on_plane_NormalNotScaled(self, normal_vector) ==
    Bind(MatVec(self.stress_tensor, normal_vector), LAMBDA total_stress :
    Bind(Dot(normal_vector, total_stress), LAMBDA normal_stress_scalar :
    Bind(VSub(total_stress, normal_vector), LAMBDA shear_stress :
    [total_stress |-> total_stress,
     normal_stress |-> normal_stress_scalar,
     shear_stress |-> shear_stress,
     shear_magnitude |-> Norm(shear_stress)])))

\* mutant: the normal stress is subtracted as a scalar (broadcast) instead
\* of as a vector along the normal
get_stress_on_plane_ScalarSubtracted(self, normal_vector) ==
    Bind(MatVec(self.stress_tensor, normal_vector), LAMBDA total_stress :
    Bind(Dot(normal_vector, total_stress), LAMBDA normal_stress_scalar :
    Bind(VSub(total_stress, Vec(normal_stress_scalar, normal_stress_scalar,
                                normal_stress_scalar)),
         LAMBDA shear_stress :
    [total_stress |-> total_stress,
     normal_stress |-> normal_stress_scalar,
     shear_stress |-> shear_stress,
     shear_magnitude |-> Norm(shear_stress)])))

\* StressTensor.get_stress_on_plane
get_stress_on_plane(self, normal_vector) ==
    Bind(MatVec(self.stress_tensor, normal_vector), LAMBDA total_stress :
    Bind(Dot(normal_vector, total_stress), LAMBDA normal_stress_scalar :
    Bind(VScale(normal_stress_scalar, normal_vector),
         LAMBDA normal_stress_vector :
    Bind(VSub(total_stress, normal_stress_vector), LAMBDA shear_stress :
    [total_stress |-> total_stress,
     normal_stress |-> normal_stress_scalar,
     shear_stress |-> shear_stress,
     shear_magnitude |-> Norm(shear_stress)]))))

----------------------------------------------------------------------------
(* Module functions                                                        *)

\* mutant: y is computed without the factor sin(phi)
SampleNormalWithoutSinPhi(r1, r2) ==
    Bind([rad |-> r1[1] * ((2 * Pi.rad) \div r1[2])], LAMBDA theta :
    Bind(RlAdd(RlMul(r2, Q(1, 2)), Q(1, 2)), LAMBDA u :
    Bind(MathAcos(RlSub(One, RlMul(Q(2, 1), u))), LAMBDA phi :
    Vec(RlMul(MathSin(phi), MathCos(theta)),
        MathSin(theta),
        MathCos(phi)))))

\* one iteration of the loop of generate_fault_normals_upper_hemisphere;
\* r1 and r2 are the two values random.random() returns, in [0, 1)
SampleNormal(r1, r2) ==
    Bind([rad |-> r1[1] * ((2 * Pi.rad) \div r1[2])], LAMBDA theta :
    Bind(RlAdd(RlMul(r2, Q(1, 2)), Q(1, 2)), LAMBDA u :
    Bind(MathAcos(RlSub(One, RlMul(Q(2, 1), u))), LAMBDA phi :
    Vec(RlMul(MathSin(phi), MathCos(theta)),
        RlMul(MathSin(phi), MathSin(theta)),
        MathCos(phi)))))

Raised == [raised |-> TRUE]

\* mutant: each boundary bearing belongs to the interval it closes
DipDirectionClosedAbove(dip_azimuth) ==
    IF Deg(315) < dip_azimuth \/ dip_azimuth <= Deg(45) THEN "N"
    ELSE IF Deg(45) < dip_azimuth /\ dip_azimuth <= Deg(135) THEN "E"
    ELSE IF Deg(135) < dip_azimuth /\ dip_azimuth <= Deg(225) THEN "S"
    ELSE "W"

\* lines 286-294: the compass letter of the dip direction
DipDirection(dip_azimuth) ==
    IF Deg(315) <= dip_azimuth \/ dip_azimuth < Deg(45) THEN "N"
    ELSE IF Deg(45) <= dip_azimuth /\ dip_azimuth < Deg(135) THEN "E"
    ELSE IF Deg(135) <= dip_azimuth /\ dip_azimuth < Deg(225) THEN "S"
    ELSE "W"

\* mutant: a downward normal is not flipped to the upper hemisphere
vector_to_geological_notation_NoFlip(normal_vector0) ==
    Bind(normal_vector0, LAMBDA normal_vector :
    IF AcosRaises(normal_vector[3]) THEN Raised
    ELSE
    Bind(Degrees(MathAcos(normal_vector[3])), LAMBDA dip :
    Bind(Degrees(MathAtan2(normal_vector[1], normal_vector[2])), LAMBDA d0 :
    Bind(IF d0 < 0 THEN d0 + Deg(360) ELSE d0, LAMBDA dip_azimuth :
    [raised |-> FALSE,
     azimuth |-> (dip_azimuth + Deg(90)) % Deg(360),
     dip |-> dip,
     dip_direction |-> DipDirection(dip_azimuth)]))))

\* mutant: the azimuth of the dip direction is returned as the azimuth
vector_to_geological_notation_DipAzimuth(normal_vector0) ==
    Bind(IF RlLt(normal_vector0[3], Zero)
         THEN VNeg(normal_vector0) ELSE normal_vector0, LAMBDA normal_vector :
    IF AcosRaises(normal_vector[3]) THEN Raised
    ELSE
    Bind(Degrees(MathAcos(normal_vector[3])), LAMBDA dip :
    Bind(Degrees(MathAtan2(normal_vector[1], normal_vector[2])), LAMBDA d0 :
    Bind(IF d0 < 0 THEN d0 + Deg(360) ELSE d0, LAMBDA dip_azimuth :
    [raised |-> FALSE,
     azimuth |-> dip_azimuth,
     dip |-> dip,
     dip_direction |-> DipDirection(dip_azimuth)]))))

vector_to_geological_notation(normal_vector0) ==
    Bind(IF RlLt(normal_vector0[3], Zero)
         THEN VNeg(normal_vector0) ELSE normal_vector0, LAMBDA normal_vector :
    IF AcosRaises(normal_vector[3]) THEN Raised
    ELSE
    Bind(Degrees(MathAcos(normal_vector[3])), LAMBDA dip :
    Bind(Degrees(MathAtan2(normal_vector[1], normal_vector[2])), LAMBDA d0 :
    Bind(IF d0 < 0 THEN d0 + Deg(360) ELSE d0, LAMBDA dip_azimuth :
    [raised |-> FALSE,
     azimuth |-> (dip_azimuth + Deg(90)) % Deg(360),
     dip |-> dip,
     dip_direction |-> DipDirection(dip_azimuth)]))))

\* horizontal unit vector at a compass azimuth (degrees)
AzimuthVector(azimuth) ==
    LET azimuth_rad == Radians(azimuth)
    IN  Vec(MathSin(azimuth_rad), MathCos(azimuth_rad), Zero)

\* mutant: a component of exactly 0.1 or -0.1 already counts
MovementClosedThresholds(striation, azimuth_vector) ==
    Bind(IF RlGe(striation[3], Q(1, 10)) THEN <<"I">>
         ELSE IF RlLe(striation[3], Q(-1, 10)) THEN <<"N">>
         ELSE <<>>, LAMBDA vertical :
    Bind(Dot(azimuth_vector, striation), LAMBDA lateral_component :
    Bind(IF RlGe(RlAbs(lateral_component), Q(1, 10))
         THEN IF RlGt(lateral_component, Zero) THEN <<"LL">> ELSE <<"RL">>
         ELSE <<>>, LAMBDA horizontal :
    Bind(vertical \o horizontal, LAMBDA movement_components :
    IF movement_components = <<>> THEN "N"
    ELSE IF Len(movement_components) = 1 THEN movement_components[1]
    ELSE movement_components[1] \o "+" \o movement_components[2]))))

\* lines 385-406: sense of movement from the striation
Movement(striation, azimuth_vector) ==
    Bind(IF RlGt(striation[3], Q(1, 10)) THEN <<"I">>
         ELSE IF RlLt(striation[3], Q(-1, 10)) THEN <<"N">>
         ELSE <<>>, LAMBDA vertical :
    Bind(Dot(azimuth_vector, striation), LAMBDA lateral_component :
    Bind(IF RlGt(RlAbs(lateral_component), Q(1, 10))
         THEN IF RlGt(lateral_component, Zero) THEN <<"LL">> ELSE <<"RL">>
         ELSE <<>>, LAMBDA horizontal :
    Bind(vertical \o horizontal, LAMBDA movement_components :
    IF movement_components = <<>> THEN "N"
    ELSE IF Len(movement_components) = 1 THEN movement_components[1]
    ELSE movement_components[1] \o "+" \o movement_components[2]))))

\* mutant: the obtuse angle between the two lines is taken, acos(-|cos_rake|)
RakeAgainstObtuse(strike_vector, striation_on_plane) ==
    Bind(Dot(strike_vector, striation_on_plane), LAMBDA cos_rake :
    IF AcosRaises(RlAbs(cos_rake)) THEN Raised
    ELSE [raised |-> FALSE,
          rake |-> Degrees(MathAcos(RlNeg(RlAbs(cos_rake))))])

\* the rake of lines 356-372 against one strike vector; Raised when
\* math.acos is given a value outside [-1, 1]
RakeAgainst(strike_vector, striation_on_plane) ==
    Bind(Dot(strike_vector, striation_on_plane), LAMBDA cos_rake :
    IF AcosRaises(RlAbs(cos_rake)) THEN Raised
    ELSE [raised |-> FALSE, rake |-> Degrees(MathAcos(RlAbs(cos_rake)))])

\* mutant: the no-slip case reports North as its reference azimuth
NoSlipFromNorth(azimuth) ==
    [raised |-> FALSE, rake |-> 0, movement |-> "N", reference_azimuth |-> 0]

\* line 319: what is returned for a shear stress of zero norm
NoSlip(azimuth) ==
    [raised |-> FALSE, rake |-> 0, movement |-> "N",
     reference_azimuth |-> azimuth]

\* mutant: on equal rakes the opposite azimuth becomes the reference
SmallerRakePreferringOpposite(first, second, azimuth, opposite_azimuth) ==
    IF second.rake <= first.rake
    THEN [rake |-> second.rake, reference_azimuth |-> opposite_azimuth]
    ELSE [rake |-> first.rake, reference_azimuth |-> azimuth]

\* lines 375-379: the smaller of the two rakes and the azimuth it is
\* measured from
SmallerRake(first, second, azimuth, opposite_azimuth) ==
    IF second.rake < first.rake
    THEN [rake |-> second.rake, reference_azimuth |-> opposite_azimuth]
    ELSE [rake |-> first.rake, reference_azimuth |-> azimuth]

\* lines 364-372: the rake against the opposite strike vector. In exact
\* arithmetic it equals the first rake; in floating point the sine and
\* cosine of azimuth + 180 are not exactly the negatives of those of
\* azimuth, and rake_opposite comes out `rounding` micro-degrees away;
\* where the exact |cos_rake_opposite| is 1 a rounding upward makes
\* math.acos raise, and the angle stays within [0, 90] (math.acos of a
\* number in [0, 1])
RakeAgainstOpposite(opposite_vector, striation_on_plane, rounding) ==
    Bind(RakeAgainst(opposite_vector, striation_on_plane), LAMBDA exact :
    IF exact.raised THEN Raised
    ELSE IF rounding < 0
            /\ RlAbs(Dot(opposite_vector, striation_on_plane)) = One
    THEN Raised
    ELSE IF exact.rake + rounding < 0 \/ exact.rake + rounding > Deg(90)
    THEN exact
    ELSE [raised |-> FALSE, rake |-> exact.rake + rounding])

\* calculate_rake_and_movement when rake_opposite is `rounding`
\* micro-degrees away from its exact value; lines 324-337 compute
\* striation_azimuth, a local that is never read
RakeAndMovement(normal_vector, shear_stress, azimuth, rounding) ==
    Bind(Norm(shear_stress), LAMBDA shear_magnitude :
    IF shear_magnitude = Zero
    THEN NoSlip(azimuth)
    ELSE
    Bind(VDivS(shear_stress, shear_magnitude), LAMBDA striation :
    Bind(AzimuthVector(azimuth), LAMBDA azimuth_vector :
    Bind(VSub(striation,
              VScale(Dot(striation, normal_vector), normal_vector)),
         LAMBDA projected :
    Bind(Norm(projected), LAMBDA striation_on_plane_norm :
    Bind(Movement(striation, azimuth_vector), LAMBDA movement :
    IF GtPow10(striation_on_plane_norm, 10)
    THEN Bind(VDivS(projected, striation_on_plane_norm),
              LAMBDA striation_on_plane :
         Bind(RakeAgainst(azimuth_vector, striation_on_plane), LAMBDA first :
         Bind((azimuth + Deg(180)) % Deg(360), LAMBDA opposite_azimuth :
         Bind(RakeAgainstOpposite(AzimuthVector(opposite_azimuth),
                                  striation_on_plane, rounding),
              LAMBDA second :
         IF first.raised \/ second.raised THEN Raised
         ELSE Bind(SmallerRake(first, second, azimuth, opposite_azimuth),
                   LAMBDA chosen :
              [raised |-> FALSE, rake |-> chosen.rake,
               movement |-> movement,
               reference_azimuth |-> chosen.reference_azimuth])))))
    ELSE [raised |-> FALSE, rake |-> 0, movement |-> movement,
          reference_azimuth |-> azimuth]))))))

\* calculate_rake_and_movement in exact arithmetic
calculate_rake_and_movement(normal_vector, shear_stress, azimuth) ==
    RakeAndMovement(normal_vector, shear_stress, azimuth, 0)

\* dip vector of validate_fault_plane_vectors, lines 440-447
DipVector(azimuth, dip) ==
    LET dip_rad == Radians(dip)
        dip_azimuth == (azimuth + Deg(90)) % Deg(360)
        dip_azimuth_rad == Radians(dip_azimuth)
    IN  Vec(RlMul(MathSin(dip_rad), MathSin(dip_azimuth_rad)),
            RlMul(MathSin(dip_rad), MathCos(dip_azimuth_rad)),
            RlNeg(MathCos(dip_rad)))

\* v / np.linalg.norm(v)
Normalised(v) == VDivS(v, Norm(v))

validate_fault_plane_vectors(normal_vector0, azimuth, dip) ==
    Bind(Normalised(AzimuthVector(azimuth)), LAMBDA azimuth_vector :
    Bind(Normalised(DipVector(azimuth, dip)), LAMBDA dip_vector :
    Bind(Normalised(normal_vector0), LAMBDA normal_vector :
    Bind(Normalised(Cross(dip_vector, azimuth_vector)),
         LAMBDA computed_normal :
    Bind(Dot(computed_normal, normal_vector), LAMBDA dot_product :
    [is_valid |-> ~GePow10(RlAbs(RlSub(RlAbs(dot_product), One)), 6),
     azimuth_vector |-> azimuth_vector,
     dip_vector |-> dip_vector,
     computed_normal |-> computed_normal])))))

----------------------------------------------------------------------------
(* get_user_input: an answer typed at a prompt is empty, not a number, or  *)
(* a number (an angle in micro-degrees, or a real for R)                   *)

Empty == [kind |-> "empty"]
NotANumber == [kind |-> "text"]
Num(v) == [kind |-> "num", value |-> v]

\* mutant: an answer that is not a number is read as 0
FloatOrZero(text, default) == IF text.kind = "num" THEN text.value ELSE 0

\* float(text) if text.strip() else default, with ValueError -> default
FloatOr(text, default) == IF text.kind = "num" THEN text.value ELSE default

RlMax(a, b) == IF RlLt(a, b) THEN b ELSE a
RlMin(a, b) == IF RlLt(b, a) THEN b ELSE a

\* mutant: the R typed by the user is returned without the clamp of line 711
get_user_input_Unclamped(answers) ==
    LET sigma1_azimuth == FloatOr(answers[1], Deg(45))
        sigma1_dip == FloatOr(answers[2], Deg(30))
        sigma3_azimuth == FloatOr(answers[3], Deg(315))
        sigma3_dip == FloatOr(answers[4], 0)
        is_andersonian == AbsInt(sigma1_dip) < 1 /\ AbsInt(sigma3_dip) < 1
    IN  [sigma1_azimuth |-> sigma1_azimuth, sigma1_dip |-> sigma1_dip,
         sigma3_azimuth |-> sigma3_azimuth, sigma3_dip |-> sigma3_dip,
         is_andersonian |-> is_andersonian,
         R |-> FloatOr(answers[5], Q(1, 2))]

get_user_input(answers) ==
    LET sigma1_azimuth == FloatOr(answers[1], Deg(45))
        sigma1_dip == FloatOr(answers[2], Deg(30))
        sigma3_azimuth == FloatOr(answers[3], Deg(315))
        sigma3_dip == FloatOr(answers[4], 0)
        \* abs(dip) < 1e-6 degrees: less than one micro-degree
        is_andersonian == AbsInt(sigma1_dip) < 1 /\ AbsInt(sigma3_dip) < 1
        R == IF answers[5].kind = "num"
             THEN RlMax(Zero, RlMin(One, answers[5].value))
             ELSE Q(1, 2)
    IN  [sigma1_azimuth |-> sigma1_azimuth, sigma1_dip |-> sigma1_dip,
         sigma3_azimuth |-> sigma3_azimuth, sigma3_dip |-> sigma3_dip,
         is_andersonian |-> is_andersonian, R |-> R]

----------------------------------------------------------------------------
(* Input domains                                                           *)

\* number of fault planes main generates (50 in the source)
N_FAULT_PLANES == 2

\* values of random.random() at which theta and phi are table angles
ThetaDraws == {Q(0, 1), Q(1, 4), Q(1, 2), Q(3, 4)}
UDraws == {Q(0, 1), Q(3, 5), Q(4, 5)}

\* (azimuth, dip) of a principal axis, in micro-degrees: the two verticals,
\* the two horizontal axes and four inclined directions of the North-Up plane
AxisInputs ==
    {<<0, 0>>, <<0, Deg(90)>>, <<Deg(90), Deg(90)>>, <<0, 36869898>>,
     <<0, 53130102>>, <<Deg(180), 36869898>>, <<Deg(180), 53130102>>,
     <<0, Deg(180)>>}

\* R handed to the constructor: inside [0, 1], below 0 and above 1
RInputs == {Zero, Q(1, 2), One, Q(-1, 2), Q(3, 2)}

ParamSpace ==
    {[sigma1_azimuth |-> a1[1], sigma1_dip |-> a1[2],
      sigma3_azimuth |-> a3[1], sigma3_dip |-> a3[2],
      is_andersonian |-> f, R |-> r] :
        a1 \in AxisInputs, a3 \in AxisInputs, f \in BOOLEAN, r \in RInputs}

\* fault normals handed to the class and the module functions directly
SampledNormals == {SampleNormal(r1, r2) : r1 \in ThetaDraws, r2 \in UDraws}

\* one iteration of the loop of generate_fault_normals_upper_hemisphere(
\* n_planes), with random.random() drawn from draws1 and UDraws; control
\* moves to `after` when the list is returned
generate_fault_normals_upper_hemisphere(n_planes, draws1, after) ==
    /\ Len(fault_normals) < n_planes
    /\ \E r1 \in draws1, r2 \in UDraws :
           fault_normals' = Append(fault_normals, SampleNormal(r1, r2))
    /\ pc' = IF Len(fault_normals) + 1 = n_planes THEN after ELSE pc

----------------------------------------------------------------------------
(* SpecSampler: generate_fault_normals_upper_hemisphere(n) called directly *)

\* largest n_planes of a direct call
MaxPlanes == 2

\* the draws at which theta is any angle of the table
AllThetaDraws == {Q(t \div 6, 60000000) : t \in TableAngles}

InitSampler ==
    /\ pc = "sampler"
    /\ call \in {[fn |-> "generate_fault_normals_upper_hemisphere",
                  n_planes |-> n] : n \in 1..MaxPlanes}
    /\ params = None
    /\ stress_tensor = None
    /\ fault_normals = <<>>
    /\ fault_data = <<>>
    /\ validation_results = <<>>
    /\ report = None

SamplerLoop ==
    /\ pc = "sampler"
    /\ generate_fault_normals_upper_hemisphere(call.n_planes, AllThetaDraws,
                                               "returned")
    /\ UNCHANGED <<params, stress_tensor, fault_data, validation_results,
                   report, call>>

NextSampler == SamplerLoop

SpecSampler == InitSampler /\ [][NextSampler]_vars

----------------------------------------------------------------------------
(* SpecNotation: the notation conversion, the pole rebuilt from a table    *)
(* row, and the vector validation, called directly                         *)

\* create_stereographic_projection, lines 624-632: the pole of a plane
\* from the Azimuth and Dip of its row
PoleVector(azimuth, dip) ==
    Bind([rad |-> Radians(azimuth).rad + Pi.rad \div 2],
         LAMBDA azimuth_plus_half_pi :
    Bind(Radians(dip), LAMBDA dip_rad :
    Vec(RlMul(MathSin(dip_rad), MathSin(azimuth_plus_half_pi)),
        RlMul(MathSin(dip_rad), MathCos(azimuth_plus_half_pi)),
        RlNeg(MathCos(dip_rad)))))

\* dips of table rows: the two boundaries and the dips strictly between
DipInputs == {0, 36869898, 53130102, Deg(90)}

\* unit normals of both hemispheres
UnitNormals ==
    {SampleNormal(r1, r2) : r1 \in AllThetaDraws, r2 \in UDraws}
    \cup {VNeg(SampleNormal(r1, r2)) : r1 \in AllThetaDraws, r2 \in UDraws}
    \cup {Vec(Zero, Zero, One), Vec(Zero, Zero, Q(-1, 1))}

InitNotation ==
    /\ pc = "call"
    /\ call = None
    /\ params = None
    /\ stress_tensor = None
    /\ fault_normals = <<>>
    /\ fault_data = <<>>
    /\ validation_results = <<>>
    /\ report = None

\* a row's (azimuth, dip) -> pole -> vector_to_geological_notation
RoundTrip ==
    /\ pc = "call"
    /\ \E azimuth \in KnownAngles, dip \in DipInputs :
           call' = [fn |-> "vector_to_geological_notation",
                    azimuth |-> azimuth, dip |-> dip,
                    normal |-> PoleVector(azimuth, dip),
                    notation |->
                        vector_to_geological_notation(
                            PoleVector(azimuth, dip))]
    /\ pc' = "returned"
    /\ UNCHANGED <<params, stress_tensor, fault_normals, fault_data,
                   validation_results, report>>

\* main, lines 762-765: a normal -> notation -> validate_fault_plane_vectors
ValidateNotation ==
    /\ pc = "call"
    /\ \E normal \in UnitNormals :
           Bind(vector_to_geological_notation(normal), LAMBDA notation :
           call' = [fn |-> "validate_fault_plane_vectors",
                    normal |-> normal, notation |-> notation,
                    validation |->
                        validate_fault_plane_vectors(normal, notation.azimuth,
                                                     notation.dip)])
    /\ pc' = "returned"
    /\ UNCHANGED <<params, stress_tensor, fault_normals, fault_data,
                   validation_results, report>>

NextNotation == RoundTrip \/ ValidateNotation

SpecNotation == InitNotation /\ [][NextNotation]_vars

----------------------------------------------------------------------------
(* SpecRake: calculate_rake_and_movement called directly on any normal,    *)
(* shear-stress vector and azimuth                                         *)

\* normals: unit ones, and one that is not of unit length
RakeNormals ==
    {Vec(Zero, Zero, One), Vec(Zero, One, Zero), Vec(Q(3, 5), Zero, Q(4, 5)),
     Vec(Zero, Q(-4, 5), Q(-3, 5)), Vec(Zero, Zero, Q(2, 1))}

\* shear vectors: the zero vector, multiples of the normals, in-plane and
\* oblique vectors
ShearComponents == {Q(-1, 1), Zero, One}
RakeShears ==
    {Vec(x, y, z) : x \in ShearComponents, y \in ShearComponents,
                    z \in ShearComponents}
    \cup {Vec(Q(3, 5), Zero, Q(4, 5)), Vec(Q(4, 5), Zero, Q(-3, 5)),
          Vec(Zero, Q(2, 5), Q(3, 10))}

\* calls whose unit striation has an Up component or a component along
\* the azimuth vector of exactly 0.1 or -0.1: (3 sqrt 11, 0, +-1) and
\* (1, 3 sqrt 11, 0) have length 10, (1, 7 sqrt 2, 1) too
QuarterTurns == {0, Deg(90), Deg(180), Deg(270)}
ThresholdArguments ==
    {<<Vec(Zero, One, Zero), Vec(<<3, 1, 11>>, Zero, z), azimuth>> :
        z \in {One, Q(-1, 1)}, azimuth \in QuarterTurns}
    \cup {<<Vec(Zero, Zero, One), Vec(One, <<3, 1, 11>>, Zero), azimuth>> :
             azimuth \in QuarterTurns}
    \cup {<<Vec(Zero, Zero, One), Vec(One, <<7, 1, 2>>, One), Deg(90)>>}

\* (normal_vector, shear_stress, azimuth) of a call
RakeArguments ==
    (RakeNormals \X RakeShears \X TableAngles) \cup ThresholdArguments

\* how far rounding puts rake_opposite from rake, in micro-degrees
Roundings == {-1, 0, 1}

InitRake ==
    /\ pc = "call"
    /\ call = None
    /\ params = None
    /\ stress_tensor = None
    /\ fault_normals = <<>>
    /\ fault_data = <<>>
    /\ validation_results = <<>>
    /\ report = None

CallRake ==
    /\ pc = "call"
    /\ \E args \in RakeArguments, rounding \in Roundings :
           call' = [fn |-> "calculate_rake_and_movement",
                    normal |-> args[1], shear_stress |-> args[2],
                    azimuth |-> args[3], rounding |-> rounding,
                    slip |-> RakeAndMovement(args[1], args[2], args[3],
                                             rounding)]
    /\ pc' = "returned"
    /\ UNCHANGED <<params, stress_tensor, fault_normals, fault_data,
                   validation_results, report>>

NextRake == CallRake

SpecRake == InitRake /\ [][NextRake]_vars

----------------------------------------------------------------------------
(* SpecTensor: a StressTensor built from any arguments, then resolved on   *)
(* fault planes                                                            *)

InitTensor ==
    /\ pc = "construct"
    /\ params \in ParamSpace
    /\ stress_tensor = None
    /\ fault_normals = <<>>
    /\ fault_data = <<>>
    /\ validation_results = <<>>
    /\ report = None
    /\ call = None

Construct ==
    /\ pc = "construct"
    /\ stress_tensor' = StressTensor(params.sigma1_azimuth, params.sigma1_dip,
                                     params.sigma3_azimuth, params.sigma3_dip,
                                     params.is_andersonian, params.R)
    /\ pc' = "built"
    /\ UNCHANGED <<params, fault_normals, fault_data, validation_results,
                   report, call>>

\* get_stress_on_plane on a normal, then the slip of the plane as main
\* derives it (lines 762, 769, 772)
ResolveCall(self, normal) ==
    Bind(vector_to_geological_notation(normal), LAMBDA notation :
    Bind(get_stress_on_plane(self, normal), LAMBDA stress :
    [fn |-> "get_stress_on_plane", normal |-> normal, stress |-> stress,
     notation |-> notation,
     slip |-> calculate_rake_and_movement(normal, stress.shear_stress,
                                          notation.azimuth)]))

Resolve ==
    /\ pc = "built"
    /\ \E normal \in SampledNormals \cup {stress_tensor.sigma1_vector} :
           call' = ResolveCall(stress_tensor, normal)
    /\ pc' = "resolved"
    /\ UNCHANGED <<params, stress_tensor, fault_normals, fault_data,
                   validation_results, report>>

NextTensor == Construct \/ Resolve

SpecTensor == InitTensor /\ [][NextTensor]_vars

----------------------------------------------------------------------------
(* SpecInput: get_user_input() called on its own, with any answers         *)

\* what can be typed at an angle prompt and at the R prompt: nothing (or
\* blanks), text that float() rejects, or a number
TypedAngles == {Empty, NotANumber, Num(Deg(10)), Num(-Deg(20))}
TypedRatios ==
    {Empty, NotANumber, Num(Q(-1, 2)), Num(Zero), Num(Q(1, 4)), Num(One),
     Num(Q(3, 2))}

TypedAnswers ==
    {<<a1, d1, a3, d3, r>> :
        a1 \in TypedAngles, d1 \in TypedAngles, a3 \in TypedAngles,
        d3 \in TypedAngles, r \in TypedRatios}

InitInput ==
    /\ pc = "prompt"
    /\ params = None
    /\ stress_tensor = None
    /\ fault_normals = <<>>
    /\ fault_data = <<>>
    /\ validation_results = <<>>
    /\ report = None
    /\ call = None

CallGetUserInput ==
    /\ pc = "prompt"
    /\ \E answers \in TypedAnswers :
           /\ params' = get_user_input(answers)
           /\ call' = [fn |-> "get_user_input", answers |-> answers]
    /\ pc' = "returned"
    /\ UNCHANGED <<stress_tensor, fault_normals, fault_data,
                   validation_results, report>>

NextInput == CallGetUserInput

SpecInput == InitInput /\ [][NextInput]_vars

----------------------------------------------------------------------------
(* Spec: main() from the prompts to the validation report                  *)

\* what the user types at the five prompts of get_user_input
AngleAnswers1 == {<<Num(0), Num(0)>>, <<Num(0), Num(36869898)>>}
AngleAnswers3 == {<<Num(0), Num(0)>>, <<Num(Deg(90)), Num(Deg(90))>>}
RAnswers == {Empty, NotANumber, Num(Q(3, 2))}

\* the first draw of each iteration of the sampler when main calls it
MainThetaDraws == {Q(1, 4), Q(1, 2)}
AnswerSpace ==
    {<<a1[1], a1[2], a3[1], a3[2], r>> :
        a1 \in AngleAnswers1, a3 \in AngleAnswers3, r \in RAnswers}

Init ==
    /\ pc = "input"
    /\ params = None
    /\ stress_tensor = None
    /\ fault_normals = <<>>
    /\ fault_data = <<>>
    /\ validation_results = <<>>
    /\ report = None
    /\ call = None

\* main, line 729
GetUserInput ==
    /\ pc = "input"
    /\ \E answers \in AnswerSpace : params' = get_user_input(answers)
    /\ pc' = "create"
    /\ UNCHANGED <<stress_tensor, fault_normals, fault_data,
                   validation_results, report, call>>

\* main, line 741
CreateTensor ==
    /\ pc = "create"
    /\ stress_tensor' = StressTensor(params.sigma1_azimuth, params.sigma1_dip,
                                     params.sigma3_azimuth, params.sigma3_dip,
                                     params.is_andersonian, params.R)
    /\ pc' = "sample"
    /\ UNCHANGED <<params, fault_normals, fault_data, validation_results,
                   report, call>>

\* main, line 754: one iteration of the sampler's loop; the list is
\* returned to main after the last one
GenerateFaultNormals ==
    /\ pc = "sample"
    /\ generate_fault_normals_upper_hemisphere(N_FAULT_PLANES, MainThetaDraws,
                                               "analyze")
    /\ UNCHANGED <<params, stress_tensor, fault_data, validation_results,
                   report, call>>

\* the body of the loop of main, lines 760-785, for the i-th normal
AnalyzeFault(self, i, normal) ==
    Bind(vector_to_geological_notation(normal), LAMBDA notation :
    IF notation.raised THEN Raised
    ELSE
    Bind(validate_fault_plane_vectors(normal, notation.azimuth, notation.dip),
         LAMBDA validation :
    Bind(get_stress_on_plane(self, normal), LAMBDA stress :
    Bind(calculate_rake_and_movement(normal, stress.shear_stress,
                                     notation.azimuth), LAMBDA slip :
    IF slip.raised THEN Raised
    ELSE [raised |-> FALSE,
          is_valid |-> validation.is_valid,
          row |-> [Plane |-> i,
                   Azimuth |-> notation.azimuth,
                   Dip |-> notation.dip,
                   Dip_Direction |-> notation.dip_direction,
                   Normal_Stress |-> stress.normal_stress,
                   Shear_Stress |-> stress.shear_magnitude,
                   Rake |-> slip.rake,
                   Movement |-> slip.movement,
                   Reference_Az |-> slip.reference_azimuth,
                   Vector_Valid |-> validation.is_valid]]))))

\* mutant: the loop body turns the sampled normal upward in place, as
\* normal_vector *= -1 in vector_to_geological_notation would
AnalyzeNextFlippingNormal ==
    /\ pc = "analyze"
    /\ Len(fault_data) < Len(fault_normals)
    /\ Bind(Len(fault_data) + 1, LAMBDA i :
       Bind(AnalyzeFault(stress_tensor, i, fault_normals[i]), LAMBDA result :
       IF result.raised
       THEN /\ pc' = "raised"
            /\ UNCHANGED <<fault_data, validation_results, fault_normals>>
       ELSE /\ validation_results' =
                   Append(validation_results, result.is_valid)
            /\ fault_data' = Append(fault_data, result.row)
            /\ fault_normals' =
                   [fault_normals EXCEPT ![i] =
                       IF RlLt(fault_normals[i][3], Zero)
                       THEN VNeg(fault_normals[i]) ELSE fault_normals[i]]
            /\ pc' = IF i = Len(fault_normals) THEN "report" ELSE "analyze"))
    /\ UNCHANGED <<params, stress_tensor, report, call>>

\* mutant: a fault whose validation fails gets no row
AnalyzeNextDroppingInvalid ==
    /\ pc = "analyze"
    /\ Len(validation_results) < Len(fault_normals)
    /\ Bind(Len(validation_results) + 1, LAMBDA i :
       Bind(AnalyzeFault(stress_tensor, i, fault_normals[i]), LAMBDA result :
       IF result.raised
       THEN /\ pc' = "raised"
            /\ UNCHANGED <<fault_data, validation_results>>
       ELSE /\ validation_results' =
                   Append(validation_results, result.is_valid)
            /\ fault_data' = IF result.is_valid
                             THEN Append(fault_data, result.row)
                             ELSE fault_data
            /\ pc' = IF i = Len(fault_normals) THEN "report" ELSE "analyze"))
    /\ UNCHANGED <<params, stress_tensor, fault_normals, report, call>>

\* mutant: each row is put at the head of the table
AnalyzeNextPrepending ==
    /\ pc = "analyze"
    /\ Len(fault_data) < Len(fault_normals)
    /\ Bind(Len(fault_data) + 1, LAMBDA i :
       Bind(AnalyzeFault(stress_tensor, i, fault_normals[i]), LAMBDA result :
       IF result.raised
       THEN /\ pc' = "raised"
            /\ UNCHANGED <<fault_data, validation_results>>
       ELSE /\ validation_results' =
                   Append(validation_results, result.is_valid)
            /\ fault_data' = <<result.row>> \o fault_data
            /\ pc' = IF i = Len(fault_normals) THEN "report" ELSE "analyze"))
    /\ UNCHANGED <<params, stress_tensor, fault_normals, report, call>>

\* one iteration of the loop of main; an exception ends main
AnalyzeNext ==
    /\ pc = "analyze"
    /\ Len(fault_data) < Len(fault_normals)
    /\ Bind(Len(fault_data) + 1, LAMBDA i :
       Bind(AnalyzeFault(stress_tensor, i, fault_normals[i]), LAMBDA result :
       IF result.raised
       THEN /\ pc' = "raised"
            /\ UNCHANGED <<fault_data, validation_results>>
       ELSE /\ validation_results' =
                   Append(validation_results, result.is_valid)
            /\ fault_data' = Append(fault_data, result.row)
            /\ pc' = IF i = Len(fault_normals) THEN "report" ELSE "analyze"))
    /\ UNCHANGED <<params, stress_tensor, fault_normals, report, call>>

\* how many invalid planes the report prints before "..." (10 in the
\* source, where 50 planes are generated)
MaxListed == 1

\* line 791: invalid_planes[:10], the first MaxListed of the invalid planes
FirstListed(invalid_planes) ==
    {i \in invalid_planes :
        Cardinality({j \in invalid_planes : j < i}) < MaxListed}

\* main, lines 787-791: what is printed about the validation; the list of
\* invalid planes is printed only when some plane is invalid
ReportValidation ==
    /\ pc = "report"
    /\ Bind({i \in DOMAIN validation_results : ~validation_results[i]},
            LAMBDA invalid_planes :
       report' =
           [valid_count |->
                Cardinality({i \in DOMAIN validation_results :
                                validation_results[i]}),
            total |-> Len(fault_normals),
            invalid_planes |-> invalid_planes,
            listed |-> FirstListed(invalid_planes),
            ellipsis |-> Cardinality(invalid_planes) > MaxListed])
    /\ pc' = "done"
    /\ UNCHANGED <<params, stress_tensor, fault_normals, fault_data,
                   validation_results, call>>

Next ==
    \/ GetUserInput
    \/ CreateTensor
    \/ GenerateFaultNormals
    \/ AnalyzeNext
    \/ ReportValidation

Spec == Init /\ [][Next]_vars

----------------------------------------------------------------------------
(* Properties of the StressTensor class (checked under SpecTensor)         *)

Built == stress_tensor # None
Trace(m) == RlAdd(RlAdd(m[1][1], m[2][2]), m[3][3])
AbsDot(u, v) == RlAbs(Dot(u, v))
\* |x| <= 1e-6, the tolerance of the orthogonality check
WithinTol(x) == ~GtPow10(RlAbs(x), 6)
InputsParallel ==
    Cross(stress_tensor.sigma3_vector, stress_tensor.sigma1_vector)
        = Vec(Zero, Zero, Zero)
Dot12 == Dot(stress_tensor.sigma1_vector, stress_tensor.sigma2_vector)
Dot13 == Dot(stress_tensor.sigma1_vector, stress_tensor.sigma3_vector)
Dot23 == Dot(stress_tensor.sigma2_vector, stress_tensor.sigma3_vector)

\* C4: the trace of the stress tensor of every constructed StressTensor is
\* -1 - R, whatever the angles, the Andersonian flag and R, the parallel
\* fallback included.
C4_TraceIsMinusOneMinusR ==
    Built => Trace(stress_tensor.stress_tensor)
                 = RlSub(Q(-1, 1), stress_tensor.R)

\* a tensor with non-zero R whose sigma2 came from normalising a cross
\* product of length 3/5
C4_Witness ==
    /\ Built
    /\ ~stress_tensor.is_andersonian
    /\ ~InputsParallel
    /\ Norm(Cross(stress_tensor.sigma3_vector, stress_tensor.sigma1_vector))
           = Q(3, 5)
    /\ stress_tensor.R = Q(1, 2)

\* C5 as stated: whenever the input sigma1 and sigma3 are not parallel, the
\* three principal axes are pairwise orthogonal within 1e-6.
C5_Original_PairwiseOrthogonal ==
    (Built /\ ~InputsParallel)
        => WithinTol(Dot12) /\ WithinTol(Dot13) /\ WithinTol(Dot23)

\* C5 amended: with is_andersonian False and sigma1, sigma3 not parallel,
\* sigma2 is orthogonal to sigma1 and to sigma3 within 1e-6; sigma1 . sigma3
\* is what the input angles give, and the code prints its "not orthogonal"
\* warning exactly when that product exceeds 1e-6.
C5_Sigma2OrthogonalToBoth ==
    (Built /\ ~stress_tensor.is_andersonian /\ ~InputsParallel)
        => /\ WithinTol(Dot12)
           /\ WithinTol(Dot23)
           /\ ("not_orthogonal" \in stress_tensor.warnings)
                  <=> ~WithinTol(Dot13)

\* sigma2 from the cross product of two inputs that are neither parallel
\* nor orthogonal
C5_Witness ==
    /\ Built
    /\ ~stress_tensor.is_andersonian
    /\ ~InputsParallel
    /\ ~WithinTol(Dot13)
    /\ stress_tensor.sigma2_vector # Vertical

\* C6: with is_andersonian = True, sigma2 is exactly (0, 0, -1) and its
\* reported azimuth is 0 and dip 90, for all four angles and every R.
C6_AndersonianSigma2Vertical ==
    (Built /\ stress_tensor.is_andersonian)
        => /\ stress_tensor.sigma2_vector = Vertical
           /\ stress_tensor.principal_axes.sigma2.vector = Vertical
           /\ stress_tensor.principal_axes.sigma2.azimuth = 0
           /\ stress_tensor.principal_axes.sigma2.dip = Deg(90)

\* an Andersonian tensor whose sigma1 and sigma3 are not parallel, so the
\* cross product would not have been vertical
C6_Witness ==
    /\ Built
    /\ stress_tensor.is_andersonian
    /\ ~InputsParallel
    /\ stress_tensor.sigma1_dip # 0
    /\ Cross(stress_tensor.sigma3_vector, stress_tensor.sigma1_vector)[3]
           = Zero

OnSigma1 == pc = "resolved" /\ call.normal = stress_tensor.sigma1_vector

Sigma1Principal ==
    \/ stress_tensor.R = Zero
    \/ Dot12 = Zero
    \/ stress_tensor.sigma2_vector = stress_tensor.sigma1_vector
    \/ stress_tensor.sigma2_vector = VNeg(stress_tensor.sigma1_vector)

----------------------------------------------------------------------------
(* Properties of the sampler (checked under SpecSampler)                   *)

SquaredLength(v) == Dot(v, v)

\* C1 as stated: every fault normal the sampler returns has an Up (z)
\* component >= 0, for every n >= 1 and every pair of draws.
C1_Original_UpComponentNonNegative ==
    \A i \in DOMAIN fault_normals : RlGe(fault_normals[i][3], Zero)

\* C10: generate_fault_normals_upper_hemisphere(n) returns exactly n vectors
\* and each has x^2 + y^2 + z^2 = 1, for every pair of draws.
C10_ReturnsNUnitVectors ==
    /\ \A i \in DOMAIN fault_normals : SquaredLength(fault_normals[i]) = One
    /\ pc = "returned" => Len(fault_normals) = call.n_planes

\* a call with n = MaxPlanes has returned, one of its normals oblique to
\* all three axes
C10_Witness ==
    /\ pc = "returned"
    /\ call.n_planes = MaxPlanes
    /\ Len(fault_normals) = MaxPlanes
    /\ \E i \in DOMAIN fault_normals :
           \A k \in 1..3 : fault_normals[i][k] # Zero

----------------------------------------------------------------------------
(* Properties of the notation conversion and the vector validation         *)
(* (checked under SpecNotation)                                            *)

Validated == pc = "returned" /\ call.fn = "validate_fault_plane_vectors"
RoundTripped == pc = "returned" /\ call.fn = "vector_to_geological_notation"

\* C2 as stated: for every unit normal n, validate_fault_plane_vectors on
\* n and the azimuth and dip of vector_to_geological_notation(n) returns
\* is_valid = True.
C2_Original_NotationValidates ==
    Validated => call.validation.is_valid

\* C8: for every azimuth in [0, 360) and every dip strictly between 0 and
\* 90, the pole rebuilt from (azimuth, dip) is converted back by
\* vector_to_geological_notation to the same azimuth and the same dip.
C8_NotationRoundTrip ==
    (RoundTripped /\ 0 < call.dip /\ call.dip < Deg(90))
        => /\ ~call.notation.raised
           /\ call.notation.azimuth = call.azimuth
           /\ call.notation.dip = call.dip

\* a round trip from an azimuth of the fourth quadrant and an inclined dip
C8_Witness ==
    /\ RoundTripped
    /\ call.azimuth = 323130102
    /\ call.dip = 36869898
    /\ call.notation.azimuth = 323130102
    /\ call.notation.dip = 36869898

----------------------------------------------------------------------------
(* Properties of calculate_rake_and_movement (checked under SpecRake)      *)

RakeReturned ==
    /\ pc = "returned"
    /\ call.fn = "calculate_rake_and_movement"
    /\ ~call.slip.raised

\* C3: for every normal, shear-stress vector and azimuth, the rake that
\* calculate_rake_and_movement returns lies in [0, 90] degrees, on the
\* zero-shear branch, the degenerate-projection branch and the
\* two-candidate branch.
C3_RakeWithinZeroAndNinety ==
    RakeReturned => 0 <= call.slip.rake /\ call.slip.rake <= Deg(90)

\* the two-candidate branch on a shear that makes an obtuse angle with the
\* strike vector, with a rake strictly inside the interval
C3_Witness ==
    /\ RakeReturned
    /\ Norm(call.shear_stress) # Zero
    /\ RlLt(Dot(AzimuthVector(call.azimuth), call.shear_stress), Zero)
    /\ 0 < call.slip.rake
    /\ call.slip.rake < Deg(90)

----------------------------------------------------------------------------
(* Properties of main (checked under Spec)                                 *)

\* row i of the table holds what the loop body computes from the i-th
\* sampled normal
RowFromNormal(i) ==
    Bind(fault_normals[i], LAMBDA normal :
    Bind(vector_to_geological_notation(normal), LAMBDA notation :
    Bind(get_stress_on_plane(stress_tensor, normal), LAMBDA stress :
    Bind(calculate_rake_and_movement(normal, stress.shear_stress,
                                     notation.azimuth), LAMBDA slip :
    /\ fault_data[i].Plane = i
    /\ fault_data[i].Azimuth = notation.azimuth
    /\ fault_data[i].Dip = notation.dip
    /\ fault_data[i].Dip_Direction = notation.dip_direction
    /\ fault_data[i].Normal_Stress = stress.normal_stress
    /\ fault_data[i].Shear_Stress = stress.shear_magnitude
    /\ fault_data[i].Rake = slip.rake
    /\ fault_data[i].Movement = slip.movement
    /\ fault_data[i].Reference_Az = slip.reference_azimuth
    /\ fault_data[i].Vector_Valid =
           validate_fault_plane_vectors(normal, notation.azimuth,
                                        notation.dip).is_valid
    /\ validation_results[i] = fault_data[i].Vector_Valid))))

\* C9: the loop of main never stops early and produces one row per sampled
\* normal: after the loop the table has N rows, and row i (Plane = i) holds
\* the values computed from the i-th sampled normal, in sampling order.
C9_OneRowPerNormalInOrder ==
    /\ pc # "raised"
    /\ Len(fault_data) <= Len(fault_normals)
    /\ Len(validation_results) = Len(fault_data)
    /\ pc \in {"report", "done"}
           => /\ Len(fault_normals) = N_FAULT_PLANES
              /\ Len(fault_data) = N_FAULT_PLANES
    /\ \A i \in DOMAIN fault_data : RowFromNormal(i)

\* main has finished on two different normals whose rows differ
C9_Witness ==
    /\ pc = "done"
    /\ Len(fault_data) = N_FAULT_PLANES
    /\ fault_normals[1] # fault_normals[2]
    /\ fault_data[1].Azimuth # fault_data[2].Azimuth
    /\ fault_data[1].Normal_Stress # fault_data[2].Normal_Stress

----------------------------------------------------------------------------
(* The stress ratio R (checked under SpecTensor)                           *)

\* R as main hands it to the constructor when the user typed r at the prompt
TypedR(r) ==
    get_user_input(<<Num(params.sigma1_azimuth), Num(params.sigma1_dip),
                     Num(params.sigma3_azimuth), Num(params.sigma3_dip),
                     Num(r)>>).R

\* C11 as stated: the constructor clamps R, so the R of every constructed
\* tensor, and with it the sigma2 magnitude -R, lies between the bounds.
C11_Original_BuilderClampsR ==
    Built => /\ RlLe(Zero, stress_tensor.R)
             /\ RlLe(stress_tensor.R, One)

\* C11: the constructor uses R exactly as given, out of range included (the
\* sigma2 magnitude trace + 1 is -R); the clamp is in get_user_input, which
\* turns a typed R below 0 into 0, above 1 into 1 and keeps any other, so a
\* tensor main builds from a typed R has its sigma2 magnitude in [-1, 0].
C11_RClampedByGetUserInputOnly ==
    Built =>
        /\ stress_tensor.R = params.R
        /\ RlAdd(Trace(stress_tensor.stress_tensor), One) = RlNeg(params.R)
        /\ TypedR(params.R) =
               IF RlLt(params.R, Zero) THEN Zero
               ELSE IF RlGt(params.R, One) THEN One
               ELSE params.R

\* a tensor constructed with R = 3/2, which the prompt would have clamped
C11_Witness ==
    /\ Built
    /\ params.R = Q(3, 2)
    /\ stress_tensor.R = Q(3, 2)
    /\ TypedR(params.R) = One

----------------------------------------------------------------------------
(* The fallback for parallel axes (checked under SpecTensor)               *)

\* m is a 3x3 matrix of real numbers
Complete3x3(m) ==
    /\ DOMAIN m = 1..3
    /\ \A i \in 1..3 :
           /\ DOMAIN m[i] = 1..3
           /\ \A j \in 1..3 : Len(m[i][j]) = 3 /\ m[i][j][2] > 0

\* the norm of sigma3 x sigma1 is at most 1e-10
CrossNormTiny ==
    ~GtPow10(Norm(Cross(stress_tensor.sigma3_vector,
                        stress_tensor.sigma1_vector)), 10)

\* C12: a StressTensor built with is_andersonian = False from parallel or
\* antiparallel sigma1 and sigma3 is constructed all the same: sigma2 is
\* (0, 0, -1), reported with azimuth 0 and dip 90, the degeneracy is
\* flagged, and the stress tensor is a complete 3x3 matrix.
C12_ParallelAxesFallBackToVertical ==
    (Built /\ ~stress_tensor.is_andersonian /\ CrossNormTiny) =>
        /\ stress_tensor.sigma2_vector = Vertical
        /\ stress_tensor.principal_axes.sigma2.vector = Vertical
        /\ stress_tensor.principal_axes.sigma2.azimuth = 0
        /\ stress_tensor.principal_axes.sigma2.dip = Deg(90)
        /\ "parallel" \in stress_tensor.warnings
        /\ Complete3x3(stress_tensor.stress_tensor)

\* a tensor built from antiparallel axes, sigma1 straight down and sigma3
\* straight up, without the Andersonian flag
C12_Witness ==
    /\ Built
    /\ ~stress_tensor.is_andersonian
    /\ stress_tensor.sigma1_vector = Vertical
    /\ stress_tensor.sigma3_vector = VNeg(Vertical)
    /\ stress_tensor.sigma2_vector = Vertical
    /\ Complete3x3(stress_tensor.stress_tensor)

----------------------------------------------------------------------------
(* get_user_input (checked under SpecInput)                                *)

InputReturned == call # None /\ call.fn = "get_user_input"

\* the documented defaults of the five prompts, in the order they are asked
Defaults == <<Deg(45), Deg(30), Deg(315), 0, Q(1, 2)>>

\* the five values get_user_input returned, in the order they are asked
Returned ==
    <<params.sigma1_azimuth, params.sigma1_dip, params.sigma3_azimuth,
      params.sigma3_dip, params.R>>

\* C13: get_user_input returns for any typed text; at each of the five
\* prompts on its own, an empty or non-numeric answer gives that
\* parameter's default (45, 30, 315, 0, 0.5), a numeric angle is kept as
\* typed, and a numeric R is kept inside [0, 1], 0 below it and 1 above it.
C13_DefaultsPerPromptAndClampedR ==
    InputReturned =>
        /\ pc = "returned"
        /\ \A i \in 1..5 :
               call.answers[i].kind # "num" => Returned[i] = Defaults[i]
        /\ \A i \in 1..4 :
               call.answers[i].kind = "num"
                   => Returned[i] = call.answers[i].value
        /\ call.answers[5].kind = "num" =>
               /\ RlLe(Zero, params.R) /\ RlLe(params.R, One)
               /\ RlLt(call.answers[5].value, Zero) => params.R = Zero
               /\ RlGt(call.answers[5].value, One) => params.R = One
               /\ (RlLe(Zero, call.answers[5].value)
                     /\ RlLe(call.answers[5].value, One))
                      => params.R = call.answers[5].value

\* one malformed angle among typed ones, and an R above 1
C13_Witness ==
    /\ InputReturned
    /\ call.answers = <<Num(Deg(10)), NotANumber, Num(-Deg(20)), Empty,
                        Num(Q(3, 2))>>
    /\ Returned = <<Deg(10), Deg(30), -Deg(20), 0, One>>

----------------------------------------------------------------------------
(* The slip classifier (checked under SpecRake)                            *)

RakeCalled == call # None /\ call.fn = "calculate_rake_and_movement"

\* C14: for every normal and every azimuth, calculate_rake_and_movement on
\* a shear-stress vector of norm exactly zero returns rake 0, movement "N"
\* and the input azimuth as reference azimuth.
C14_ZeroShearIsNoSlip ==
    (RakeCalled /\ Norm(call.shear_stress) = Zero) =>
        /\ ~call.slip.raised
        /\ call.slip.rake = 0
        /\ call.slip.movement = "N"
        /\ call.slip.reference_azimuth = call.azimuth

\* the zero shear on an inclined plane whose azimuth is not North
C14_Witness ==
    /\ RakeCalled
    /\ call.shear_stress = Vec(Zero, Zero, Zero)
    /\ call.normal = Vec(Q(3, 5), Zero, Q(4, 5))
    /\ call.azimuth = 216869898
    /\ call.slip.rake = 0
    /\ call.slip.reference_azimuth = 216869898

\* the unit striation and the vector along the input azimuth of the call
CallStriation == VDivS(call.shear_stress, Norm(call.shear_stress))
CallAzimuthVector ==
    Vec(MathSin(Radians(call.azimuth)), MathCos(Radians(call.azimuth)), Zero)

\* the vertical and the horizontal part of the movement code; "" is no part
VerticalPart ==
    IF RlGt(CallStriation[3], Q(1, 10)) THEN "I"
    ELSE IF RlLt(CallStriation[3], Q(-1, 10)) THEN "N"
    ELSE ""
HorizontalPart ==
    IF RlGt(Dot(CallStriation, CallAzimuthVector), Q(1, 10)) THEN "LL"
    ELSE IF RlLt(Dot(CallStriation, CallAzimuthVector), Q(-1, 10)) THEN "RL"
    ELSE ""
MovementCodes == {"N", "I", "LL", "RL", "I+LL", "I+RL", "N+LL", "N+RL"}

\* C15: for a non-zero shear the movement code has the vertical part "I"
\* when the Up component of the unit striation is above 0.1, "N" when it is
\* below -0.1, and the horizontal part "LL" when the component along the
\* input azimuth vector is above 0.1, "RL" when below -0.1; a component of
\* exactly 0.1 or -0.1 gives no part; the parts are joined vertical first
\* with "+", the code is "N" when there is none, and so it is one of the
\* eight codes.
C15_MovementCodeFromStriation ==
    (RakeCalled /\ Norm(call.shear_stress) # Zero /\ ~call.slip.raised) =>
        /\ call.slip.movement =
               IF VerticalPart = "" /\ HorizontalPart = "" THEN "N"
               ELSE IF HorizontalPart = "" THEN VerticalPart
               ELSE IF VerticalPart = "" THEN HorizontalPart
               ELSE VerticalPart \o "+" \o HorizontalPart
        /\ call.slip.movement \in MovementCodes

\* a striation with Up exactly 0.1 and a large component along the
\* azimuth: the code has the horizontal part alone
C15_Witness ==
    /\ RakeCalled
    /\ call.shear_stress = Vec(<<3, 1, 11>>, Zero, One)
    /\ call.azimuth = Deg(90)
    /\ CallStriation[3] = Q(1, 10)
    /\ ~call.slip.raised
    /\ call.slip.movement = "LL"

\* the striation projected onto the plane, as lines 349-353 compute it
CallProjected ==
    VSub(CallStriation,
         VScale(Dot(CallStriation, call.normal), call.normal))
CallStriationOnPlane == VDivS(CallProjected, Norm(CallProjected))

\* the call took the branch of line 352 and returned
TwoCandidates ==
    /\ RakeCalled
    /\ Norm(call.shear_stress) # Zero
    /\ GtPow10(Norm(CallProjected), 10)
    /\ ~call.slip.raised

\* the two candidate rakes: against the strike vector at the input azimuth
\* and at the opposite one
OppositeAzimuth == (call.azimuth + Deg(180)) % Deg(360)
CandidateRake ==
    Degrees(MathAcos(RlAbs(Dot(CallAzimuthVector, CallStriationOnPlane))))
CandidateRakeOpposite ==
    RakeAgainstOpposite(AzimuthVector(OppositeAzimuth), CallStriationOnPlane,
                        call.rounding).rake

\* C16: on the two-candidate branch the returned rake is the smaller of the
\* rake against the strike vector at azimuth and the rake against the one
\* at (azimuth + 180) mod 360; the reference azimuth is the opposite
\* azimuth when its rake is strictly smaller and the input azimuth
\* otherwise, ties included; an input azimuth in [0, 360) gives a
\* reference azimuth in [0, 360).
C16_SmallerCandidateAndItsAzimuth ==
    TwoCandidates =>
        /\ call.slip.rake <= CandidateRake
        /\ call.slip.rake <= CandidateRakeOpposite
        /\ call.slip.rake \in {CandidateRake, CandidateRakeOpposite}
        /\ call.slip.reference_azimuth =
               IF CandidateRakeOpposite < CandidateRake
               THEN OppositeAzimuth ELSE call.azimuth
        /\ (0 <= call.azimuth /\ call.azimuth < Deg(360)) =>
               /\ 0 <= call.slip.reference_azimuth
               /\ call.slip.reference_azimuth < Deg(360)

\* the opposite candidate wins by a rounding, from an azimuth above 180
C16_Witness ==
    /\ TwoCandidates
    /\ call.azimuth = 216869898
    /\ 0 < CandidateRakeOpposite
    /\ CandidateRakeOpposite < CandidateRake
    /\ call.slip.rake = CandidateRakeOpposite
    /\ call.slip.reference_azimuth = 36869898

----------------------------------------------------------------------------
(* The geological notation (checked under SpecNotation)                    *)

\* vector_to_geological_notation was called on call.normal
NotationCalled == pc = "returned" /\ call # None

\* the normal turned to the upper hemisphere, and the compass bearing of
\* its horizontal part, atan2(East, North) brought into [0, 360)
CallUpward ==
    IF RlLt(call.normal[3], Zero) THEN VNeg(call.normal) ELSE call.normal
CallDipAzimuth ==
    (Degrees(MathAtan2(CallUpward[1], CallUpward[2])) + Deg(360)) % Deg(360)

\* C17: for every unit vector, whatever the sign of its Up component,
\* vector_to_geological_notation returns a dip in [0, 90] and an azimuth in
\* [0, 360) that is the dip-azimuth plus 90 modulo 360, the dip-azimuth
\* being the bearing atan2(East, North) of the vector turned upward.
C17_DipAndAzimuthRanges ==
    (NotationCalled /\ SquaredLength(call.normal) = One) =>
        /\ ~call.notation.raised
        /\ 0 <= call.notation.dip
        /\ call.notation.dip <= Deg(90)
        /\ 0 <= call.notation.azimuth
        /\ call.notation.azimuth < Deg(360)
        /\ call.notation.azimuth = (CallDipAzimuth + Deg(90)) % Deg(360)

\* a downward unit normal dipping to the West of North: its azimuth wraps
\* past 360
C17_Witness ==
    /\ NotationCalled
    /\ SquaredLength(call.normal) = One
    /\ RlLt(call.normal[3], Zero)
    /\ CallDipAzimuth = 323130102
    /\ call.notation.azimuth = 53130102
    /\ 0 < call.notation.dip
    /\ call.notation.dip < Deg(90)

\* C18: every dip-azimuth in [0, 360) gets exactly one letter: N in
\* [315, 360) and [0, 45), E in [45, 135), S in [135, 225), W in
\* [225, 315); each of 45, 135, 225, 315 belongs to the interval it opens.
C18_DipDirectionLetter ==
    (NotationCalled /\ ~call.notation.raised) =>
        /\ 0 <= CallDipAzimuth /\ CallDipAzimuth < Deg(360)
        /\ call.notation.dip_direction \in {"N", "E", "S", "W"}
        /\ call.notation.dip_direction = "N"
               <=> (Deg(315) <= CallDipAzimuth \/ CallDipAzimuth < Deg(45))
        /\ call.notation.dip_direction = "E"
               <=> (Deg(45) <= CallDipAzimuth /\ CallDipAzimuth < Deg(135))
        /\ call.notation.dip_direction = "S"
               <=> (Deg(135) <= CallDipAzimuth /\ CallDipAzimuth < Deg(225))
        /\ call.notation.dip_direction = "W"
               <=> (Deg(225) <= CallDipAzimuth /\ CallDipAzimuth < Deg(315))

\* a plane dipping exactly to the North-East: the boundary 45 is E
C18_Witness ==
    /\ NotationCalled
    /\ ~call.notation.raised
    /\ CallDipAzimuth = Deg(45)
    /\ call.notation.dip_direction = "E"

----------------------------------------------------------------------------
(* The plane resolver (checked under SpecTensor)                           *)

Resolved == call # None /\ call.fn = "get_stress_on_plane"

\* C19: for every stress tensor and every unit normal n, the shear vector
\* get_stress_on_plane returns is tangent to the plane (shear . n = 0),
\* the total stress is normal_stress * n + shear, and the shear magnitude
\* is >= 0 and is 0 exactly when the total stress is parallel to n.
C19_ShearTangentAndDecomposition ==
    (Resolved /\ SquaredLength(call.normal) = One) =>
        /\ Dot(call.stress.shear_stress, call.normal) = Zero
        /\ VSub(call.stress.total_stress, call.stress.shear_stress)
               = VScale(call.stress.normal_stress, call.normal)
        /\ RlGe(call.stress.shear_magnitude, Zero)
        /\ call.stress.shear_magnitude = Zero
               <=> Cross(call.stress.total_stress, call.normal)
                       = Vec(Zero, Zero, Zero)

\* an oblique plane that carries both a normal stress and a shear stress
C19_Witness ==
    /\ Resolved
    /\ SquaredLength(call.normal) = One
    /\ call.stress.normal_stress # Zero
    /\ RlGt(call.stress.shear_magnitude, Zero)
    /\ call.normal[1] # Zero
    /\ call.normal[3] # Zero
    /\ Dot(call.stress.shear_stress, call.normal) = Zero

----------------------------------------------------------------------------
(* The per-fault pipeline leaves its inputs alone (checked under Spec)     *)

\* a row without its plane number
RowResult(i) == [fault_data[i] EXCEPT !.Plane = 0]

\* planes with the same normal have the same row
SameNormalSameRow ==
    \A i, j \in DOMAIN fault_data :
        fault_normals[i] = fault_normals[j] => RowResult(i) = RowResult(j)

\* C20: no iteration of the per-fault loop (get_stress_on_plane,
\* vector_to_geological_notation, validate_fault_plane_vectors,
\* calculate_rake_and_movement) changes the constructed StressTensor - its
\* matrix, its three principal vectors, its R - or the sampled normals, and
\* the rows already written stay; so the same normal resolved before or
\* after other faults gives the same row.
C20_PipelineLeavesTensorAndNormals ==
    [][pc = "analyze" =>
          /\ stress_tensor' = stress_tensor
          /\ fault_normals' = fault_normals
          /\ \A i \in DOMAIN fault_data : fault_data'[i] = fault_data[i]
          /\ SameNormalSameRow']_vars

\* the same downward normal analysed twice: two rows that differ in the
\* plane number only
C20_Witness ==
    /\ pc = "report"
    /\ Built
    /\ Len(fault_data) = N_FAULT_PLANES
    /\ fault_normals[1] = fault_normals[N_FAULT_PLANES]
    /\ RlLt(fault_normals[1][3], Zero)
    /\ fault_data[1].Plane # fault_data[N_FAULT_PLANES].Plane
    /\ RowResult(1) = RowResult(N_FAULT_PLANES)

----------------------------------------------------------------------------
(* The validation report (checked under Spec)                              *)

Reported == report # None

\* the fields every row of the table has
RowFields ==
    {"Plane", "Azimuth", "Dip", "Dip_Direction", "Normal_Stress",
     "Shear_Stress", "Rake", "Movement", "Reference_Az", "Vector_Valid"}

\* every analysed fault has a full row carrying its validation result
EveryFaultHasItsRow ==
    /\ Len(fault_data) = Len(validation_results)
    /\ \A i \in DOMAIN fault_data :
           /\ DOMAIN fault_data[i] = RowFields
           /\ fault_data[i].Plane = i
           /\ fault_data[i].Vector_Valid = validation_results[i]

----------------------------------------------------------------------------
(* The two candidate rakes compared (checked under SpecRake)               *)

\* C22 as stated: the two candidate rakes are always equal, the branch that
\* switches to the opposite azimuth is never taken, and the reference
\* azimuth returned is always the input azimuth.
C22_Original_OppositeNeverChosen ==
    (RakeCalled /\ ~call.slip.raised) =>
        /\ TwoCandidates => CandidateRakeOpposite = CandidateRake
        /\ call.slip.reference_azimuth = call.azimuth

----------------------------------------------------------------------------
(* The two antipodal normals of a plane (checked under SpecTensor)         *)

\* the pipeline steps of main on the opposite normal of the resolved call
AntipodalCall == ResolveCall(stress_tensor, VNeg(call.normal))

\* C23 as stated: the pipeline on n and on -n gives the same azimuth, dip,
\* normal stress, shear magnitude, rake and movement code.
C23_Original_SameRecordForBothNormals ==
    (Resolved /\ SquaredLength(call.normal) = One
        /\ ~call.notation.raised /\ ~call.slip.raised
        /\ ~AntipodalCall.notation.raised /\ ~AntipodalCall.slip.raised) =>
        /\ AntipodalCall.notation.azimuth = call.notation.azimuth
        /\ AntipodalCall.notation.dip = call.notation.dip
        /\ AntipodalCall.stress.normal_stress = call.stress.normal_stress
        /\ AntipodalCall.stress.shear_magnitude = call.stress.shear_magnitude
        /\ AntipodalCall.slip.rake = call.slip.rake
        /\ AntipodalCall.slip.movement = call.slip.movement

----------------------------------------------------------------------------
(* The normal stress and the principal magnitudes (checked under Spec)     *)

\* C24 as stated: with R in [0, 1], whatever the angles and the Andersonian
\* flag, the normal stress on every unit fault normal lies in [-1, 0].
C24_Original_NormalStressWithinPrincipal ==
    (Built /\ RlLe(Zero, stress_tensor.R) /\ RlLe(stress_tensor.R, One)) =>
        \A i \in DOMAIN fault_data :
            SquaredLength(fault_normals[i]) = One =>
                /\ RlLe(Q(-1, 1), fault_data[i].Normal_Stress)
                /\ RlLe(fault_data[i].Normal_Stress, Zero)

----------------------------------------------------------------------------
(* SpecFile: analyze_file of plot_traj.py, the block-reading loop          *)

\* the longest file read, and the most blocks the loop is followed for
MaxLines == 3
MaxBlocks == 3

\* a token of a line: an integer literal, a decimal literal with a
\* fractional part, or any other word
IntToken(n) == [int |-> n]
DecimalToken == [decimal |-> TRUE]
WordToken == [word |-> TRUE]

\* int(token) raises ValueError on everything but an integer literal
IntRaises(token) == "int" \notin DOMAIN token

\* float(token) raises ValueError on a word
FloatRaises(token) == "word" \in DOMAIN token

\* the contact counts a header declares, and the particle numbers
DeclaredCounts == -3 .. 1
Particles == {1}

\* line.split() of the lines of a file: a blank line, a header whose last
\* token is the declared count, a contact line "i particle x y z"
BlankLine == <<>>
HeaderLine(n) == <<WordToken, IntToken(n)>>
ContactLine(p) ==
    <<IntToken(1), IntToken(p), DecimalToken, DecimalToken, DecimalToken>>

LineKinds ==
    {BlankLine} \cup {HeaderLine(n) : n \in DeclaredCounts}
               \cup {ContactLine(p) : p \in Particles}

Files == UNION {[1 .. k -> LineKinds] : k \in 0 .. MaxLines}

\* lines[i] of a Python list: indices from 0, negative ones from the end
IndexRaises(lines, i) == i >= Len(lines) \/ i < 0 - Len(lines)
Item(lines, i) == IF i >= 0 THEN lines[i + 1] ELSE lines[Len(lines) + i + 1]

\* lines 20-28: the contact read on line i, or the exception of that line
ContactRaises(lines, i) ==
    \/ IndexRaises(lines, i)
    \/ Len(Item(lines, i)) < 5
    \/ IntRaises(Item(lines, i)[2])
    \/ \E k \in 3 .. 5 : FloatRaises(Item(lines, i)[k])

Contact(lines, i) == [particle |-> Item(lines, i)[2].int]

\* read_block(lines, start_idx): the contacts and the index after the block
read_block(lines, start_idx) ==
    IF \/ IndexRaises(lines, start_idx)
       \/ Item(lines, start_idx) = <<>>
       \/ IntRaises(Item(lines, start_idx)[Len(Item(lines, start_idx))])
    THEN Raised
    ELSE Bind(Item(lines, start_idx)[Len(Item(lines, start_idx))].int,
         LAMBDA n_contacts :
         Bind(start_idx + 2, LAMBDA current_idx :
           IF \E i \in 0 .. n_contacts - 1 :
                  ContactRaises(lines, current_idx + i)
           THEN Raised
           ELSE [raised |-> FALSE,
                 contacts |->
                     [k \in 1 .. n_contacts |->
                         Contact(lines, current_idx + k - 1)],
                 next_idx |-> current_idx + n_contacts]))

\* find_persistent_contacts: for each contact of the first state, the
\* first contact of the second state with the same particle number
RECURSIVE find_persistent_contacts(_, _)
find_persistent_contacts(contacts1, contacts2) ==
    IF contacts1 = <<>> THEN <<>>
    ELSE Bind({j \in DOMAIN contacts2 :
                   contacts2[j].particle = Head(contacts1).particle},
         LAMBDA same :
           (IF same = {} THEN <<>>
            ELSE <<(<<Head(contacts1),
                      contacts2[CHOOSE j \in same :
                                    \A k \in same : j <= k]>>)>>)
           \o find_persistent_contacts(Tail(contacts1), contacts2))

\* lines 171-174 of analyze_file: the locals before the loop
InitFile ==
    /\ pc = "loop"
    /\ params = None
    /\ stress_tensor = None
    /\ fault_normals = <<>>
    /\ fault_data = <<>>
    /\ validation_results = <<>>
    /\ report = None
    /\ \E lines \in Files :
           call = [fn |-> "analyze_file", lines |-> lines,
                   current_idx |-> 0, previous_contacts |-> None,
                   all_persistent_contacts |-> <<>>, block_count |-> 0]

FileUnchanged ==
    UNCHANGED <<params, stress_tensor, fault_normals, fault_data,
                validation_results, report>>

\* line 176: the loop condition fails, the summary follows
LoopExit ==
    /\ pc = "loop"
    /\ ~(call.current_idx < Len(call.lines))
    /\ pc' = "summary"
    /\ UNCHANGED call
    /\ FileUnchanged

\* line 178: lines[current_idx] outside the try, an IndexError nobody catches
IndexCrash ==
    /\ pc = "loop"
    /\ call.current_idx < Len(call.lines)
    /\ IndexRaises(call.lines, call.current_idx)
    /\ pc' = "crashed"
    /\ UNCHANGED call
    /\ FileUnchanged

\* lines 178-180: a blank line is skipped
SkipBlank ==
    /\ pc = "loop"
    /\ call.current_idx < Len(call.lines)
    /\ ~IndexRaises(call.lines, call.current_idx)
    /\ Item(call.lines, call.current_idx) = <<>>
    /\ call' = [call EXCEPT !.current_idx = @ + 1]
    /\ UNCHANGED pc
    /\ FileUnchanged

\* lines 183-200: a block is read and the loop moves to the index returned
ReadBlock ==
    /\ pc = "loop"
    /\ call.current_idx < Len(call.lines)
    /\ ~IndexRaises(call.lines, call.current_idx)
    /\ Item(call.lines, call.current_idx) # <<>>
    /\ call.block_count < MaxBlocks
    /\ Bind(read_block(call.lines, call.current_idx), LAMBDA block :
         /\ ~block.raised
         /\ Bind(IF call.previous_contacts = None THEN <<>>
                 ELSE find_persistent_contacts(call.previous_contacts,
                                               block.contacts),
            LAMBDA persistent :
              call' = [call EXCEPT
                         !.block_count = @ + 1,
                         !.all_persistent_contacts =
                             IF persistent # <<>>
                             THEN Append(@, persistent) ELSE @,
                         !.previous_contacts = block.contacts,
                         !.current_idx = block.next_idx]))
    /\ UNCHANGED pc
    /\ FileUnchanged

\* lines 202-206: read_block raised, the loop breaks
ReadError ==
    /\ pc = "loop"
    /\ call.current_idx < Len(call.lines)
    /\ ~IndexRaises(call.lines, call.current_idx)
    /\ Item(call.lines, call.current_idx) # <<>>
    /\ read_block(call.lines, call.current_idx).raised
    /\ pc' = "summary"
    /\ UNCHANGED call
    /\ FileUnchanged

NextFile ==
    \/ LoopExit
    \/ IndexCrash
    \/ SkipBlank
    \/ ReadBlock
    \/ ReadError

SpecFile == InitFile /\ [][NextFile]_vars

----------------------------------------------------------------------------
(* The index read_block returns (checked under SpecFile)                   *)

\* a step of the loop that read a block
BlockRead == pc = "loop" /\ call'.block_count = call.block_count + 1

\* C25 as stated: the index the loop moves to after a block is read is
\* strictly greater than the current one, whatever count the header
\* declares, so that the loop terminates on every finite list of lines.
C25_Original_NextIndexStrictlyGreater ==
    [][BlockRead => call'.current_idx > call.current_idx]_vars

====
